---- MODULE Spec2Model ----
(***************************************************************************)
(* Model of the /chat request flow of src/main.py: per-request database    *)
(* connection (get_db), slowapi rate limit "5/minute" keyed by client IP,  *)
(* Redis cache lookup / SETEX, OpenAI completion call and the request log. *)
(*                                                                         *)
(* Texts (queries, responses, details) are sequences of one-token strings  *)
(* so that str.lower(), str.strip() and f-string concatenation are         *)
(* computed rather than assumed.                                           *)
(***************************************************************************)
EXTENDS Naturals, Integers, Sequences, FiniteSets, TLC

VARIABLES cache, log, limiter, req, nreq, recent, admitted, written, origin, last

vars == <<cache, log, limiter, req, nreq, recent, admitted, written, origin, last>>

(***************************************************************************)
(* Bounds of the model.                                                    *)
(***************************************************************************)
MaxRequests == 3
MaxRateRequests == 7
MaxOverlapRequests == 3
MaxClientRequests == 7
MaxInFlight == 2

(***************************************************************************)
(* Program constants.                                                      *)
(***************************************************************************)
CACHE_TTL == 3600
RATE_LIMIT == 5
RATE_WINDOW == 60
UPSTREAM_ERROR_STATUS == 500
DB_UNAVAILABLE_STATUS == 503

UPSTREAM_ERROR_DETAIL == <<"Error in interaction with OpenAI API">>
INTERNAL_SERVER_ERROR == <<"Internal Server Error">>
RATE_LIMIT_EXCEEDED == <<"Rate limit exceeded: 5 per 1 minute">>
DB_UNAVAILABLE_DETAIL == <<"Database connection unavailable.">>
VALIDATION_ERROR == <<"Field required">>

(***************************************************************************)
(* Python values.                                                          *)
(***************************************************************************)
None == [some |-> FALSE, val |-> <<>>]
Some(v) == [some |-> TRUE, val |-> v]

\* bool(x) of an Optional[str]: None and "" are falsy
Truthy(x) == x.some /\ x.val # <<>>

\* str.lower() on one character
LowerChar(c) ==
  CASE c = "H" -> "h"
    [] c = "I" -> "i"
    [] OTHER -> c

\* str.lower()
Lower(s) == [i \in 1..Len(s) |-> LowerChar(s[i])]

IsSpace(c) == c = " "

RECURSIVE LStrip(_)
LStrip(s) == IF s # <<>> /\ IsSpace(Head(s)) THEN LStrip(Tail(s)) ELSE s

RECURSIVE RStrip(_)
RStrip(s) ==
  IF s # <<>> /\ IsSpace(s[Len(s)]) THEN RStrip(SubSeq(s, 1, Len(s) - 1)) ELSE s

\* str.strip()
Strip(s) == RStrip(LStrip(s))

\* sub in text
Contains(text, sub) ==
  \E i \in 0..(Len(text) - Len(sub)) : SubSeq(text, i + 1, i + Len(sub)) = sub

(***************************************************************************)
(* Inputs.  A profile names the sets the environment draws from.           *)
(***************************************************************************)
IPs == {"10.0.0.1", "10.0.0.2"}

Queries == {<<>>, <<"H", "i">>, <<"h", "i">>}

\* message.content of a completion: text, possibly padded, or None
Contents == {Some(<<" ", "4", " ">>), Some(<<"5">>), Some(<<" ">>), None}

UpstreamErrors == {"APITimeoutError", "RateLimitError"}

\* what the INSERT can raise: connection lost, table missing
LogErrors == {"OperationalError", "ProgrammingError"}

UpstreamOutcomes(P) ==
  [ok : {TRUE}, content : P.contents, err : {""}]
    \cup [ok : {FALSE}, content : {None}, err : P.errors]

FullProfile ==
  [ips |-> {"10.0.0.1"}, queries |-> Queries, missing |-> {TRUE, FALSE},
   contents |-> Contents, errors |-> UpstreamErrors,
   fail |-> {TRUE, FALSE}, dbfail |-> {TRUE, FALSE}, max |-> MaxRequests,
   clocks |-> {"cache"}, early |-> TRUE, overlap |-> FALSE]

RateProfile ==
  [ips |-> {"10.0.0.1"}, queries |-> {<<"h", "i">>}, missing |-> {FALSE},
   contents |-> {Some(<<"4">>)}, errors |-> {"APITimeoutError"},
   fail |-> {FALSE}, dbfail |-> {TRUE, FALSE}, max |-> MaxRateRequests,
   clocks |-> {"limiter"}, early |-> TRUE, overlap |-> FALSE]

\* two clients and the rate limit
ClientsProfile ==
  [ips |-> IPs, queries |-> {<<"h", "i">>}, missing |-> {FALSE},
   contents |-> {Some(<<"4">>)}, errors |-> {"APITimeoutError"},
   fail |-> {FALSE}, dbfail |-> {FALSE}, max |-> MaxClientRequests,
   clocks |-> {"limiter"}, early |-> FALSE, overlap |-> FALSE]

\* requests that overlap
OverlapProfile ==
  [ips |-> {"10.0.0.1"}, queries |-> {<<"H", "i">>, <<"h", "i">>}, missing |-> {FALSE},
   contents |-> {Some(<<" ", "4", " ">>), Some(<<" ">>)},
   errors |-> {"APITimeoutError"},
   fail |-> {TRUE, FALSE}, dbfail |-> {TRUE, FALSE}, max |-> MaxOverlapRequests,
   clocks |-> {"cache"}, early |-> FALSE, overlap |-> TRUE]

Keys == {Lower(q) : q \in Queries}

Slots == 1..MaxInFlight

(***************************************************************************)
(* Redis: decode_responses=True client, GET and SETEX.                     *)
(***************************************************************************)
\* An entry holds its value and its remaining time to live, in seconds
NoEntry == [present |-> FALSE, value |-> <<>>, ttl |-> 0]

\* redis_client.get(key): the value, or None when absent or expired
RedisGet(c, key) ==
  IF c[key].present /\ c[key].ttl > 0 THEN Some(c[key].value) ELSE None

\* redis_client.setex(key, ttl, value)
RedisSetex(c, key, ttl, value) ==
  [c EXCEPT ![key] = [present |-> TRUE, value |-> value, ttl |-> ttl]]

\* d seconds pass: Redis drops the entries whose time to live has run out
RedisElapse(c, d) ==
  [k \in DOMAIN c |->
     IF c[k].present /\ c[k].ttl > d THEN [c[k] EXCEPT !.ttl = @ - d] ELSE NoEntry]

(***************************************************************************)
(* Request log table.                                                      *)
(***************************************************************************)
Row(ip, request_text, response_text, status) ==
  [ip_address |-> ip, request_text |-> request_text,
   response_text |-> response_text, status |-> status]

\* The program only ever inserts into request_logs and never reads it: the
\* table is kept as its number of rows and the row inserted last.
NoRow == Row("", <<>>, <<>>, "")

EmptyLog == [n |-> 0, last |-> NoRow]

\* INSERT ... ; commit()
log_request_to_db(l, ip, request_text, response_text, status) ==
  [n |-> l.n + 1, last |-> Row(ip, request_text, response_text, status)]

(***************************************************************************)
(* slowapi Limiter(key_func=get_remote_address), "5/minute": fixed window  *)
(* in memory; the window opens at the first counted hit.                   *)
(***************************************************************************)
\* A window holds its count and the seconds left until it expires
NoWindow == [count |-> 0, ttl |-> 0]

\* one window read for every client
LimiterCountShared(lim, ip) ==
  LET key == CHOOSE i \in DOMAIN lim : TRUE
  IN IF lim[key].ttl <= 0 THEN 0 ELSE lim[key].count

\* MemoryStorage.get: an expired window counts nothing
LimiterCount(lim, ip) == IF lim[ip].ttl <= 0 THEN 0 ELSE lim[ip].count

\* a hit that opens the window and counts nothing after its first request
LimiterHitUncounted(lim, ip) ==
  [lim EXCEPT ![ip] =
     [count |-> 1,
      ttl |-> IF LimiterCount(lim, ip) = 0 THEN RATE_WINDOW ELSE lim[ip].ttl]]

\* MemoryStorage.incr: every checked request is counted, admitted or not;
\* the first hit of a window sets its expiry
LimiterHit(lim, ip) ==
  LET c == LimiterCount(lim, ip) + 1
  IN [lim EXCEPT ![ip] =
        [count |-> c, ttl |-> IF c = 1 THEN RATE_WINDOW ELSE lim[ip].ttl]]

\* the test made on the count before this request
LimiterAllowsBefore(lim, ip) == LimiterCount(lim, ip) <= RATE_LIMIT

\* FixedWindowRateLimiter.hit: the count after this hit is within the limit
LimiterAllows(lim, ip) == LimiterCount(lim, ip) + 1 <= RATE_LIMIT

\* d seconds pass: expired windows are dropped
LimiterElapse(lim, d) ==
  [ip \in DOMAIN lim |->
     IF lim[ip].count > 0 /\ lim[ip].ttl > d THEN [lim[ip] EXCEPT !.ttl = @ - d]
     ELSE NoWindow]

(***************************************************************************)
(* get_openai_response                                                     *)
(***************************************************************************)
HTTPException(status, detail) == [ok |-> FALSE, status |-> status, text |-> detail]

\* the exception's name passed on in the detail
UpstreamFailureNamed(e) ==
  HTTPException(UPSTREAM_ERROR_STATUS, UPSTREAM_ERROR_DETAIL \o <<e>>)

\* any exception e of the completion call becomes the same HTTPException
UpstreamFailure(e) == HTTPException(UPSTREAM_ERROR_STATUS, UPSTREAM_ERROR_DETAIL)

\* up: the completion call's outcome.  content None has no .strip():
\* AttributeError, caught by the same except clause.
get_openai_response(up) ==
  IF up.ok /\ up.content.some
  THEN [ok |-> TRUE, status |-> 200, text |-> Strip(up.content.val)]
  ELSE UpstreamFailure(IF up.ok THEN "AttributeError" ELSE up.err)

(***************************************************************************)
(* chat_endpoint body                                                      *)
(***************************************************************************)
CacheKey(query) == Lower(query)

\* if cached_response:
IsHit(cached_response) == Truthy(cached_response)

\* calls: the calls the body made to its dependencies, in order
Result(status, source, body, c, l, path, cached, calls) ==
  [status |-> status, source |-> source, body |-> body, cache |-> c, log |-> l,
   path |-> path, cached_response |-> cached, raised |-> "", calls |-> calls]

\* an exception that is no HTTPException leaves the endpoint: Starlette's 500.
\* raised: the call it came from
Unhandled(raised, c, l, path, cached, calls) ==
  [Result(500, "", INTERNAL_SERVER_ERROR, c, l, path, cached, calls)
     EXCEPT !.raised = raised]

\* lines 225-228 logging the key in place of the query
HitPathKeyLogged(c, l, ip, query, cached, e) ==
  IF e.logOk
  THEN Result(200, "cache", cached.val, c,
              log_request_to_db(l, ip, CacheKey(query), cached.val, "cached"),
              "hit", cached, <<"get", "log">>)
  ELSE Unhandled("log", c, l, "hit", cached, <<"get", "log">>)

\* lines 225-228 with the entry's life renewed by the hit
HitPathRenewed(c, l, ip, query, cached, e) ==
  LET c2 == [c EXCEPT ![CacheKey(query)].ttl = CACHE_TTL]
  IN IF e.logOk
     THEN Result(200, "cache", cached.val, c2,
                 log_request_to_db(l, ip, query, cached.val, "cached"),
                 "hit", cached, <<"get", "log">>)
     ELSE Unhandled("log", c2, l, "hit", cached, <<"get", "log">>)

\* lines 225-228 with the completion asked again behind the hit
HitPathRevalidated(c, l, ip, query, cached, e) ==
  IF e.logOk
  THEN Result(200, "cache", cached.val, c,
              log_request_to_db(l, ip, query, cached.val, "cached"),
              "hit", cached, <<"get", "openai", "log">>)
  ELSE Unhandled("log", c, l, "hit", cached, <<"get", "openai", "log">>)

\* lines 225-228
HitPath(c, l, ip, query, cached, e) ==
  IF e.logOk
  THEN Result(200, "cache", cached.val, c,
              log_request_to_db(l, ip, query, cached.val, "cached"),
              "hit", cached, <<"get", "log">>)
  ELSE Unhandled("log", c, l, "hit", cached, <<"get", "log">>)

\* lines 233-235 storing the query in place of the response
MissSuccessEcho(c, l, ip, query, cached, response_text, e) ==
  IF ~e.setexOk
  THEN Unhandled("setex", c, l, "miss", cached, <<"get", "openai", "setex">>)
  ELSE LET c2 == RedisSetex(c, CacheKey(query), CACHE_TTL, query)
       IN IF e.logOk
          THEN Result(200, "api", response_text, c2,
                      log_request_to_db(l, ip, query, response_text, "success"),
                      "miss", cached, <<"get", "openai", "setex", "log">>)
          ELSE Unhandled("log", c2, l, "miss", cached,
                         <<"get", "openai", "setex", "log">>)

\* lines 233-235
MissSuccess(c, l, ip, query, cached, response_text, e) ==
  IF ~e.setexOk
  THEN Unhandled("setex", c, l, "miss", cached, <<"get", "openai", "setex">>)
  ELSE LET c2 == RedisSetex(c, CacheKey(query), CACHE_TTL, response_text)
       IN IF e.logOk
          THEN Result(200, "api", response_text, c2,
                      log_request_to_db(l, ip, query, response_text, "success"),
                      "miss", cached, <<"get", "openai", "setex", "log">>)
          ELSE Unhandled("log", c2, l, "miss", cached,
                         <<"get", "openai", "setex", "log">>)

\* lines 236-238 without the call of line 237
MissFailureUnlogged(c, l, ip, query, cached, exc, e) ==
  Result(exc.status, "", exc.text, c, l, "miss", cached, <<"get", "openai">>)

\* lines 236-238 with the failure detail stored like a response
MissFailureCached(c, l, ip, query, cached, exc, e) ==
  LET c2 == RedisSetex(c, CacheKey(query), CACHE_TTL, exc.text)
  IN IF e.logOk
     THEN Result(exc.status, "", exc.text, c2,
                 log_request_to_db(l, ip, query, <<"Error: ">> \o exc.text, "error"),
                 "miss", cached, <<"get", "openai", "setex", "log">>)
     ELSE Unhandled("log", c2, l, "miss", cached,
                    <<"get", "openai", "setex", "log">>)

\* lines 236-238
MissFailure(c, l, ip, query, cached, exc, e) ==
  IF e.logOk
  THEN Result(exc.status, "", exc.text, c,
              log_request_to_db(l, ip, query, <<"Error: ">> \o exc.text, "error"),
              "miss", cached, <<"get", "openai", "log">>)
  ELSE Unhandled("log", c, l, "miss", cached, <<"get", "openai", "log">>)

\* lines 222-238.  e: what the dependencies do in this invocation
chat_endpoint(c, l, ip, query, e) ==
  IF ~e.getOk
  THEN Unhandled("get", c, l, "", None, <<"get">>)
  ELSE LET cached_response == RedisGet(c, CacheKey(query))
       IN IF IsHit(cached_response)
          THEN HitPath(c, l, ip, query, cached_response, e)
          ELSE LET r == get_openai_response(e.up)
               IN IF r.ok
                  THEN MissSuccess(c, l, ip, query, cached_response, r.text, e)
                  ELSE MissFailure(c, l, ip, query, cached_response, r, e)

\* get_db, lines 78-81, when the endpoint's exception is thrown into it at its
\* yield: a psycopg2.OperationalError of the log insert is caught there and
\* answered like an unreachable database
get_db_except(out, e) ==
  IF out.raised = "log" /\ e.logErr = "OperationalError"
  THEN [out EXCEPT !.status = DB_UNAVAILABLE_STATUS, !.body = DB_UNAVAILABLE_DETAIL]
  ELSE out

\* the endpoint inside its dependency: what the request is answered
chat_request(c, l, ip, query, e) ==
  get_db_except(chat_endpoint(c, l, ip, query, e), e)

\* how many times an invocation called a dependency
Count(calls, name) == Cardinality({n \in 1..Len(calls) : calls[n] = name})

\* the exception the completion call raised in an invocation, "" if none
UpstreamError(out, e) ==
  IF Count(out.calls, "openai") = 0 \/ (e.up.ok /\ e.up.content.some) THEN ""
  ELSE IF e.up.ok THEN "AttributeError" ELSE e.up.err

\* the invocation's SETEX reached Redis
Wrote(out) == Count(out.calls, "setex") > 0 /\ out.raised # "setex"

\* What the dependencies do in one invocation: whether the cache read, the
\* cache write and the log insert succeed, and the completion call's outcome.
\* What a call that is never reached would have done is left out.
Envs(P) ==
  LET oks == {TRUE} \cup {~f : f \in P.fail}
      all == [getOk : oks, up : UpstreamOutcomes(P), setexOk : oks, logOk : oks,
              logErr : LogErrors]
      reached(e) ==
        /\ ~e.getOk => e.setexOk /\ e.logOk /\ e.up = CHOOSE u \in UpstreamOutcomes(P) : TRUE
        /\ ~get_openai_response(e.up).ok => e.setexOk
        /\ ~e.setexOk => e.logOk
        /\ e.logOk => e.logErr = "ProgrammingError"
  IN {e \in all : reached(e)}

(***************************************************************************)
(* Requests                                                                *)
(***************************************************************************)
\* a request in flight.  sixth: five requests of its IP arrived in the
\* RATE_WINDOW seconds before it
Idle ==
  [pc |-> "idle", ip |-> "", hasQuery |-> FALSE, query |-> <<>>, conn |-> FALSE,
   sixth |-> FALSE]

\* get_db without its except clause: the OperationalError leaves it
get_db_unhandled(dbfail) ==
  IF dbfail
  THEN [ok |-> FALSE, conn |-> FALSE, status |-> 500, body |-> INTERNAL_SERVER_ERROR]
  ELSE [ok |-> TRUE, conn |-> TRUE, status |-> 0, body |-> <<>>]

\* get_db connecting only when the connection is first used
get_db_deferred(dbfail) == [ok |-> TRUE, conn |-> FALSE, status |-> 0, body |-> <<>>]

\* get_db, lines 69-81, up to its yield: the connection, or the 503 raised
\* when psycopg2.connect raises OperationalError
get_db(dbfail) ==
  IF dbfail
  THEN [ok |-> FALSE, conn |-> FALSE, status |-> DB_UNAVAILABLE_STATUS,
        body |-> DB_UNAVAILABLE_DETAIL]
  ELSE [ok |-> TRUE, conn |-> TRUE, status |-> 0, body |-> <<>>]

\* the request ends with its connection as it is
get_db_unclosed(r) == [r EXCEPT !.pc = "idle"]

\* get_db, lines 82-84: the connection, if there is one, is closed
get_db_finally(r) == [r EXCEPT !.pc = "idle", !.conn = FALSE]

\* an answered request: what is left of it is its connection
Exit(conn) == [Idle EXCEPT !.pc = "exit", !.conn = conn]

\* The response a step sends, with what the handling of its request did;
\* NoAnswer in a step that sends none.
NoAnswer ==
  [ip |-> "", hasQuery |-> FALSE, query |-> <<>>, sixth |-> FALSE,
   conn |-> FALSE, counted |-> 0, invoked |-> FALSE,
   status |-> 0, source |-> "", body |-> <<>>, path |-> "",
   cached_response |-> None, raised |-> "", err |-> "", logErr |-> "",
   calls |-> <<>>,
   cache0 |-> [k \in Keys |-> NoEntry], log0 |-> EmptyLog,
   written0 |-> [k \in Keys |-> -1], limiter0 |-> [ip \in IPs |-> NoWindow]]

\* cache0, log0, written0, limiter0: the stores as the step found them
Answer(r) ==
  [NoAnswer EXCEPT !.ip = r.ip, !.hasQuery = r.hasQuery, !.query = r.query,
                   !.sixth = r.sixth, !.conn = r.conn, !.cache0 = cache, !.log0 = log,
                   !.written0 = written, !.limiter0 = limiter]

Free(i) == req[i].pc = "idle"

\* the free slot a new request takes
FreeSlot == CHOOSE i \in Slots : Free(i) /\ \A j \in Slots : Free(j) => i <= j

\* The arrivals of one IP in the last RATE_WINDOW seconds, and likewise its
\* requests admitted to the handler: the seconds since each, oldest first.
RecentArrive(s) == Append(s, 0)

RecentElapse(s, d) ==
  SelectSeq([n \in 1..Len(s) |-> s[n] + d], LAMBDA a : a < RATE_WINDOW)

\* Seconds since the handler last wrote a key to the cache, -1 if it never
\* did; not counted beyond CACHE_TTL.  origin: the text get_openai_response
\* returned to that writer, kept for CACHE_TTL seconds.
SinceElapse(w, d) ==
  IF w < 0 THEN w ELSE IF w + d < CACHE_TTL THEN w + d ELSE CACHE_TTL

Init ==
  /\ cache = [k \in Keys |-> NoEntry]
  /\ log = EmptyLog
  /\ limiter = [ip \in IPs |-> NoWindow]
  /\ req = [i \in Slots |-> Idle]
  /\ nreq = 0
  /\ recent = [ip \in IPs |-> <<>>]
  /\ admitted = [ip \in IPs |-> <<>>]
  /\ written = [k \in Keys |-> -1]
  /\ origin = [k \in Keys |-> None]
  /\ last = NoAnswer

(***************************************************************************)
(* A request arrives; FastAPI resolves its dependencies: get_db() runs to  *)
(* its yield (or raises 503) and the query parameter is bound (or 422).    *)
(***************************************************************************)
Arrive(P) ==
  /\ nreq < P.max
  /\ \E i \in Slots : Free(i)
  /\ P.overlap \/ \A i \in Slots : Free(i)
  /\ \E ip \in P.ips, q \in P.queries, missing \in P.missing, dbfail \in P.dbfail :
       LET i == FreeSlot
           seen == RecentArrive(recent[ip])
           r == [Idle EXCEPT !.ip = ip, !.hasQuery = ~missing,
                             !.query = IF missing THEN <<>> ELSE q,
                             !.sixth = (Len(seen) > RATE_LIMIT)]
           db == get_db(dbfail)
       IN /\ recent' = [recent EXCEPT ![ip] = seen]
          /\ IF ~db.ok
             THEN /\ req' = [req EXCEPT ![i] = Exit(db.conn)]
                  /\ last' = [Answer(r) EXCEPT
                                !.conn = db.conn,
                                !.status = db.status, !.body = db.body]
             ELSE IF missing
             THEN /\ req' = [req EXCEPT ![i] = Exit(db.conn)]
                  /\ last' = [Answer(r) EXCEPT
                                !.conn = db.conn,
                                !.status = 422, !.body = VALIDATION_ERROR]
             ELSE /\ req' = [req EXCEPT ![i] = [r EXCEPT !.pc = "ready",
                                                        !.conn = db.conn]]
                  /\ last' = NoAnswer
  /\ nreq' = nreq + 1
  /\ UNCHANGED <<cache, log, limiter, admitted, written, origin>>

(***************************************************************************)
(* The decorated endpoint runs on the event loop: slowapi's wrapper counts *)
(* the request and either raises RateLimitExceeded (429) or calls the      *)
(* body, which runs to its return or raise without awaiting.               *)
(***************************************************************************)
Handle(P) ==
  \E i \in Slots, e \in Envs(P) :
    /\ req[i].pc = "ready"
    /\ LET r == req[i]
           counted == LimiterCount(limiter, r.ip) + 1
           out == chat_request(cache, log, r.ip, r.query, e)
       IN /\ limiter' = LimiterHit(limiter, r.ip)
          /\ req' = [req EXCEPT ![i] = Exit(r.conn)]
          /\ IF LimiterAllows(limiter, r.ip)
             THEN /\ admitted' = [admitted EXCEPT ![r.ip] = RecentArrive(@)]
                  /\ cache' = out.cache
                  /\ log' = out.log
                  /\ last' = [Answer(r) EXCEPT
                                !.invoked = TRUE, !.counted = counted,
                                !.status = out.status, !.source = out.source,
                                !.body = out.body, !.path = out.path,
                                !.cached_response = out.cached_response,
                                !.raised = out.raised,
                                !.err = UpstreamError(out, e),
                                !.logErr = IF out.raised = "log" THEN e.logErr
                                           ELSE "",
                                !.calls = out.calls]
                  /\ written' = IF Wrote(out)
                                THEN [written EXCEPT ![CacheKey(r.query)] = 0]
                                ELSE written
                  /\ origin' = IF Wrote(out)
                               THEN [origin EXCEPT ![CacheKey(r.query)] =
                                       Some(get_openai_response(e.up).text)]
                               ELSE origin
             ELSE /\ last' = [Answer(r) EXCEPT
                                !.counted = counted, !.status = 429,
                                !.body = RATE_LIMIT_EXCEEDED]
                  /\ UNCHANGED <<cache, log, admitted, written, origin>>
    /\ UNCHANGED <<nreq, recent>>

(***************************************************************************)
(* get_db()'s finally clause closes the request's connection, if one was   *)
(* opened; the request is over.                                            *)
(***************************************************************************)
Close ==
  \E i \in Slots :
    /\ req[i].pc = "exit"
    /\ req' = [req EXCEPT ![i] = get_db_finally(req[i])]
    /\ last' = NoAnswer
    /\ UNCHANGED <<cache, log, limiter, nreq, recent, admitted, written, origin>>

(***************************************************************************)
(* Time passes, by the seconds that matter: up to the second before the    *)
(* expiry of a cache entry or of a rate-limit window, or to that expiry.   *)
(* P.clocks: which of the two kinds of expiry the environment waits for.   *)
(***************************************************************************)
Deadlines(P) ==
  {cache[k].ttl : k \in {x \in Keys : "cache" \in P.clocks /\ cache[x].present}}
    \cup {limiter[ip].ttl :
            ip \in {x \in IPs : "limiter" \in P.clocks /\ limiter[x].count > 0}}

\* P.early: whether it also stops at the second before an expiry
Delays(P) ==
  {d \in Deadlines(P) \cup (IF P.early THEN {x - 1 : x \in Deadlines(P)} ELSE {}) :
     d > 0}

Tick(P) ==
  /\ \E d \in Delays(P) :
       /\ cache' = RedisElapse(cache, d)
       /\ limiter' = LimiterElapse(limiter, d)
       /\ recent' = [ip \in IPs |-> RecentElapse(recent[ip], d)]
       /\ admitted' = [ip \in IPs |-> RecentElapse(admitted[ip], d)]
       /\ written' = [k \in Keys |-> SinceElapse(written[k], d)]
       /\ origin' = [k \in Keys |->
                       IF SinceElapse(written[k], d) < CACHE_TTL THEN origin[k]
                       ELSE None]
  /\ last' = NoAnswer
  /\ UNCHANGED <<log, req, nreq>>

Next == Arrive(FullProfile) \/ Handle(FullProfile) \/ Close \/ Tick(FullProfile)

Spec == Init /\ [][Next]_vars

NextRate == Arrive(RateProfile) \/ Handle(RateProfile) \/ Close \/ Tick(RateProfile)

SpecRate == Init /\ [][NextRate]_vars

NextOverlap ==
  Arrive(OverlapProfile) \/ Handle(OverlapProfile) \/ Close \/ Tick(OverlapProfile)

\* The overlapping requests come into a window of the limiter that three
\* requests have just been counted in, each answered 500 after its cache
\* read raised: nothing is cached or logged yet.
Busy == "10.0.0.1"

InitOverlap ==
  /\ cache = [k \in Keys |-> NoEntry]
  /\ log = EmptyLog
  /\ limiter = LimiterHit(LimiterHit(LimiterHit([ip \in IPs |-> NoWindow], Busy), Busy), Busy)
  /\ req = [i \in Slots |-> Idle]
  /\ nreq = 0
  /\ recent = [ip \in IPs |-> IF ip = Busy THEN <<0, 0, 0>> ELSE <<>>]
  /\ admitted = [ip \in IPs |-> IF ip = Busy THEN <<0, 0, 0>> ELSE <<>>]
  /\ written = [k \in Keys |-> -1]
  /\ origin = [k \in Keys |-> None]
  /\ last = NoAnswer

SpecOverlap == InitOverlap /\ [][NextOverlap]_vars

NextClients ==
  Arrive(ClientsProfile) \/ Handle(ClientsProfile) \/ Close \/ Tick(ClientsProfile)

SpecClients == Init /\ [][NextClients]_vars

(***************************************************************************)
(* Shapes                                                                  *)
(***************************************************************************)
TypeOK ==
  /\ log.n \in Nat
  /\ nreq \in Nat
  /\ \A i \in Slots : req[i].pc \in {"idle", "ready", "exit"}

(***************************************************************************)
(* What a step's answer says about the invocation behind it                *)
(***************************************************************************)
\* the body of chat_endpoint ran for the request just answered
Invoked == last.invoked

Key == CacheKey(last.query)

\* rows the step appended to request_logs
Rows == log.n - last.log0.n

\* the row inserted before the step
PrevRow == last.log0.last

Reads == Count(last.calls, "get")

UpstreamCalls == Count(last.calls, "openai")

Writes == Count(last.calls, "setex")

Live(entry) == entry.present /\ entry.ttl > 0

\* an earlier call with the query text q returned source=api, and the
\* response it stored is still in the cache under the step's key
StoredBy(q) ==
  /\ PrevRow.status = "success"
  /\ PrevRow.request_text = q
  /\ Live(last.cache0[Key])
  /\ last.cache0[Key].value = PrevRow.response_text

(***************************************************************************)
(* C1                                                                      *)
(***************************************************************************)
\* C1, as stated: every admitted invocation of the handler appends exactly
\* one row to the request log, whichever path it takes and whichever
\* dependency call fails.
C1_ExactlyOneRow == Invoked => Rows = 1

\* C1, amended: an admitted invocation never appends two rows; it appends
\* exactly one row, whose status names its path (cached, success, error),
\* when the cache read, the cache write and the log insert raise nothing,
\* and no row when one of them raises.
C1_OneRowUnlessRaised ==
  Invoked =>
    /\ Rows <= 1
    /\ Rows = 1 <=> last.raised = ""
    /\ Rows = 1 =>
         /\ log.last.ip_address = last.ip
         /\ log.last.request_text = last.query
         /\ log.last.status =
              IF last.path = "hit" THEN "cached"
              ELSE IF last.err = "" THEN "success" ELSE "error"

\* an upstream failure on a miss left its one row
C1_Witness == Invoked /\ last.err # "" /\ Rows = 1 /\ log.last.status = "error"

(***************************************************************************)
(* C2                                                                      *)
(***************************************************************************)
\* C2: for a non-empty query Q and a response R of a successful upstream
\* call, a call that finds no entry for lower(Q) returns source=api with R
\* and stores it, and the next call with Q within the TTL returns
\* source=cache with the identical R and makes no upstream call.
C2_ApiThenCache ==
  /\ (Invoked /\ last.query # <<>> /\ last.raised = "" /\ last.err = ""
        /\ ~Live(last.cache0[Key]))
       => /\ last.status = 200
          /\ last.source = "api"
          /\ Live(cache[Key])
          /\ cache[Key].value = last.body
  /\ (Invoked /\ last.query # <<>> /\ last.raised = "" /\ StoredBy(last.query))
       => /\ last.status = 200
          /\ last.source = "cache"
          /\ last.body = PrevRow.response_text
          /\ UpstreamCalls = 0

(***************************************************************************)
(* C3                                                                      *)
(***************************************************************************)
\* C3, as stated: when the upstream call fails on a cache miss the response
\* is a failure, a row with status error whose response_text contains the
\* failure detail is written, and afterwards the cache holds no entry for
\* the key and is unchanged.
C3_FailureLoggedNoEntry ==
  (Invoked /\ last.err # "") =>
    /\ last.status # 200
    /\ Rows = 1
    /\ log.last.status = "error"
    /\ Contains(log.last.response_text, UPSTREAM_ERROR_DETAIL)
    /\ ~cache[Key].present
    /\ cache = last.cache0

\* C3, amended: when the upstream call fails on a cache miss the response is
\* a failure and the cache is unchanged; when the log insert succeeds the
\* failure is the 500 of the upstream detail and the row with status error
\* and response_text "Error: " followed by that detail is written; when the
\* log insert raises no row is written and the failure is a 500, or the 503
\* of get_db if it raised OperationalError.
C3_FailureLeavesCache ==
  (Invoked /\ last.err # "") =>
    /\ last.path = "miss"
    /\ last.status =
         IF last.raised = "log" /\ last.logErr = "OperationalError"
         THEN DB_UNAVAILABLE_STATUS ELSE UPSTREAM_ERROR_STATUS
    /\ last.status # 200
    /\ last.source = ""
    /\ cache = last.cache0
    /\ written = last.written0
    /\ last.raised \in {"", "log"}
    /\ last.raised = "" =>
         /\ Rows = 1
         /\ log.last = Row(last.ip, last.query,
                           <<"Error: ">> \o UPSTREAM_ERROR_DETAIL, "error")
         /\ Contains(log.last.response_text, last.body)
    /\ last.raised = "log" => log = last.log0

\* the upstream call failed with the key's entry absent, and the error row
\* was written
C3_Witness ==
  /\ Invoked /\ last.err = "APITimeoutError" /\ last.raised = ""
  /\ ~last.cache0[Key].present /\ ~cache[Key].present
  /\ log.last.status = "error"

(***************************************************************************)
(* C4                                                                      *)
(***************************************************************************)
\* the step left both stores as it found them and called no dependency
NoWork == last.calls = <<>> /\ cache = last.cache0 /\ log = last.log0

\* C4, as stated: when six requests arrive from one IP within 60 seconds,
\* the sixth is rejected with a rate-limit error distinct from the upstream
\* and database failures, and performs no cache read, no upstream call and
\* no log write.
C4_SixthArrivalRejected ==
  (last.status # 0 /\ last.sixth) =>
    /\ last.status = 429
    /\ last.status \notin {UPSTREAM_ERROR_STATUS, DB_UNAVAILABLE_STATUS}
    /\ ~Invoked
    /\ NoWork

\* C4, amended: when six requests of one IP reach the rate limiter inside
\* one of its windows (60 seconds from the first request it counted), the
\* sixth and every later one in the window is rejected with status 429,
\* distinct from the upstream and database failures, and performs no cache
\* read, no upstream call and no log write; the first five are admitted.
C4_SixthCountedRejected ==
  /\ last.counted > RATE_LIMIT =>
       /\ last.status = 429
       /\ last.body = RATE_LIMIT_EXCEEDED
       /\ last.status \notin {UPSTREAM_ERROR_STATUS, DB_UNAVAILABLE_STATUS}
       /\ ~Invoked
       /\ NoWork
  /\ last.counted \in 1..RATE_LIMIT => Invoked /\ last.status # 429
  /\ last.status = 429 => last.counted > RATE_LIMIT

\* the sixth arrival within 60 seconds was the sixth counted, and rejected
C4_Witness ==
  last.sixth /\ last.counted = RATE_LIMIT + 1 /\ last.status = 429 /\ NoWork

(***************************************************************************)
(* C5                                                                      *)
(***************************************************************************)
\* C5: cache keys are case-insensitive: the handler reads and writes the
\* cache under the same key for queries that differ only in letter case, so
\* after a successful call with Q1 a call with Q2 within the TTL is a cache
\* hit returning the response stored for Q1.
C5_OtherCaseHits ==
  /\ \A q1, q2 \in Queries : Lower(q1) = Lower(q2) => CacheKey(q1) = CacheKey(q2)
  /\ Invoked => \A k \in Keys : k # Key => cache[k] = last.cache0[k]
  /\ (/\ Invoked /\ last.raised = ""
      /\ PrevRow.request_text # last.query
      /\ Lower(PrevRow.request_text) = Lower(last.query)
      /\ StoredBy(PrevRow.request_text))
       => /\ last.path = "hit"
          /\ last.source = "cache"
          /\ last.body = PrevRow.response_text

(***************************************************************************)
(* C6                                                                      *)
(***************************************************************************)
\* C6: an entry the handler wrote is absent once CACHE_TTL seconds have
\* passed since the last write of its key; until then its remaining life is
\* CACHE_TTL less the time since that write, whatever hits it served; and a
\* request for the key after the expiry, whose cache read succeeds, takes
\* the miss path and calls upstream again.
C6_ExpiresAfterTTL ==
  /\ \A k \in Keys :
       /\ written[k] >= CACHE_TTL => ~cache[k].present /\ RedisGet(cache, k) = None
       /\ cache[k].present => written[k] >= 0 /\ cache[k].ttl = CACHE_TTL - written[k]
  /\ (Invoked /\ last.raised # "get" /\ last.written0[Key] >= CACHE_TTL)
       => /\ last.path = "miss"
          /\ last.cached_response = None
          /\ UpstreamCalls = 1

\* the key was written, served a hit, and CACHE_TTL seconds after the write
\* a request for it missed and called upstream
C6_Witness ==
  /\ Invoked /\ last.written0[Key] = CACHE_TTL
  /\ PrevRow.status = "cached" /\ Lower(PrevRow.request_text) = Key
  /\ last.path = "miss" /\ UpstreamCalls = 1

(***************************************************************************)
(* C7                                                                      *)
(***************************************************************************)
\* C7: a failure of the log insert is swallowed: on the cache-hit path and
\* on the upstream-success path the caller still receives the computed
\* response with its source tag, and only a failure of the upstream call
\* turns the response into an error.
C7_LogFailureSwallowed ==
  /\ (Invoked /\ last.raised = "log" /\ last.path = "hit")
       => /\ last.status = 200
          /\ last.source = "cache"
          /\ last.body = last.cached_response.val
  /\ (Invoked /\ last.raised = "log" /\ last.path = "miss" /\ last.err = "")
       => /\ last.status = 200
          /\ last.source = "api"
          /\ last.body = cache[Key].value
  /\ (Invoked /\ last.status # 200) => last.err # ""

(***************************************************************************)
(* C8                                                                      *)
(***************************************************************************)
\* what the dependencies can do in an invocation whose completion call fails
FailingEnvs ==
  {e \in Envs(FullProfile) : e.getOk /\ ~get_openai_response(e.up).ok}

\* the invocations from the state the answered one started in that differ
\* from it only in the exception of the completion call answer as it did
SameForEveryError ==
  \A e2 \in FailingEnvs :
    LET r2 == chat_request(last.cache0, last.log0, last.ip, last.query, e2)
    IN (e2.logOk = (last.raised # "log") /\ (~e2.logOk => e2.logErr = last.logErr))
         => /\ UpstreamError(r2, e2) # ""
            /\ r2.status = last.status
            /\ r2.body = last.body
            /\ r2.cache = cache

C9_EmptyQueryRejected ==
  (last.status # 0 /\ (~last.hasQuery \/ last.query = <<>>)) =>
    /\ ~Invoked
    /\ Reads = 0
    /\ UpstreamCalls = 0
    /\ Writes = 0
    /\ cache = last.cache0
    /\ last.status # 200

(***************************************************************************)
(* C10                                                                     *)
(***************************************************************************)
\* call a comes before call b
Precedes(calls, a, b) ==
  \E m, n \in 1..Len(calls) : m < n /\ calls[m] = a /\ calls[n] = b

\* C10: every invocation reads the cache exactly once, calls upstream at
\* most once and writes the cache at most once; on the cache-hit path it
\* makes no upstream call and no cache write; and a cache write comes only
\* after a successful upstream call of the same invocation.
C10_CallCounts ==
  Invoked =>
    /\ Reads = 1
    /\ last.calls[1] = "get"
    /\ UpstreamCalls <= 1
    /\ Writes <= 1
    /\ last.path = "hit" => UpstreamCalls = 0 /\ Writes = 0 /\ cache = last.cache0
    /\ Writes = 1 => UpstreamCalls = 1 /\ last.err = ""
                       /\ Precedes(last.calls, "openai", "setex")
    /\ cache # last.cache0 => Writes = 1
    /\ written # last.written0 => Writes = 1

\* a hit: the cache was read once and nothing else was called but the log
C10_Witness ==
  Invoked /\ last.path = "hit" /\ last.calls = <<"get", "log">> /\ last.status = 200

(***************************************************************************)
(* C11                                                                     *)
(***************************************************************************)
\* C11: the handler takes the cache-hit path if and only if the cache holds
\* an unexpired entry for the lower-cased query: whenever an entry exists,
\* whatever its value, the empty string included, the value is returned
\* with source=cache and no upstream call is made.
C11_HitIffEntry ==
  (Invoked /\ last.raised # "get") =>
    /\ last.path = "hit" <=> Live(last.cache0[Key])
    /\ Live(last.cache0[Key]) =>
         /\ UpstreamCalls = 0
         /\ last.raised = "" =>
              /\ last.status = 200
              /\ last.source = "cache"
              /\ last.body = last.cache0[Key].value

(***************************************************************************)
(* C12                                                                     *)
(***************************************************************************)
\* the requests of ip admitted since its current limiter window opened
InWindow(ip) ==
  IF limiter[ip].count = 0 THEN 0
  ELSE Cardinality({n \in 1..Len(admitted[ip]) :
                      admitted[ip][n] <= RATE_WINDOW - limiter[ip].ttl})

\* C12, as stated: for every client IP and every interval of 60 seconds,
\* wherever it starts, at most 5 requests of that IP are admitted to the
\* handler within the interval.
C12_RollingWindow == \A ip \in IPs : Len(admitted[ip]) <= RATE_LIMIT

\* C12, amended: for every client IP, at most 5 requests are admitted within
\* each fixed window of the limiter, which opens at the first request it
\* counts after the previous window ended and lasts 60 seconds: the first
\* five requests counted in the window, and no other.
C12_FixedWindow ==
  \A ip \in IPs :
    /\ InWindow(ip) <= RATE_LIMIT
    /\ InWindow(ip) =
         IF limiter[ip].count <= RATE_LIMIT THEN limiter[ip].count ELSE RATE_LIMIT

\* five requests were admitted in the window and the next one is rejected
C12_Witness ==
  /\ last.status = 429
  /\ InWindow(last.ip) = RATE_LIMIT
  /\ Len(admitted[last.ip]) = RATE_LIMIT

(***************************************************************************)
(* C13                                                                     *)
(***************************************************************************)
\* what the window of ip had counted when the step began
CountedBefore(ip) ==
  IF last.limiter0[ip].ttl > 0 THEN last.limiter0[ip].count ELSE 0

\* C13: the rate-limit counter is keyed by client IP: a request is admitted
\* exactly when fewer than 5 requests of its own IP were counted in the
\* current window, it is counted in that window only, and the windows of
\* the other IPs, whatever they counted or rejected, are left as they were.
C13_PerClientQuota ==
  last.counted > 0 =>
    /\ Invoked <=> CountedBefore(last.ip) < RATE_LIMIT
    /\ last.status = 429 <=> CountedBefore(last.ip) >= RATE_LIMIT
    /\ limiter[last.ip].count = CountedBefore(last.ip) + 1
    /\ \A ip \in IPs \ {last.ip} : limiter[ip] = last.limiter0[ip]

\* a client is admitted while another has used up its quota and been
\* rejected in its current window
C13_Witness ==
  /\ Invoked /\ CountedBefore(last.ip) < RATE_LIMIT
  /\ \E ip \in IPs \ {last.ip} : limiter[ip].ttl > 0 /\ limiter[ip].count > RATE_LIMIT

(***************************************************************************)
(* C14                                                                     *)
(***************************************************************************)
\* C14: under any interleaving of overlapping requests, a row written on a
\* non-error path agrees with what its own invocation returned: its
\* request_text is that invocation's query as sent, its response_text is
\* the response returned, and its status is cached exactly when the source
\* returned is cache and success exactly when it is api.
C14_RowAgrees ==
  /\ (Invoked /\ Rows = 1 /\ log.last.status \in {"cached", "success"}) =>
       /\ last.status = 200
       /\ log.last.ip_address = last.ip
       /\ log.last.request_text = last.query
       /\ log.last.response_text = last.body
       /\ log.last.status = "cached" <=> last.source = "cache"
       /\ log.last.status = "success" <=> last.source = "api"
  /\ (Invoked /\ last.status = 200) =>
       Rows = 1 /\ log.last.status \in {"cached", "success"}

\* a hit for a query in capitals is answered and logged while a request for
\* another text of the same key waits for the event loop
C14_Witness ==
  /\ Invoked /\ last.path = "hit" /\ Rows = 1
  /\ last.query # Lower(last.query)
  /\ \E i \in Slots : req[i].pc = "ready" /\ req[i].query # last.query

(***************************************************************************)
(* C15                                                                     *)
(***************************************************************************)
OpenConnections == {i \in Slots : req[i].conn}

InFlight == {i \in Slots : req[i].pc # "idle"}

\* C15: the connection acquired for a request is closed on every exit path:
\* a finished request has no connection open, so the open connections are
\* never more than the requests in flight; until it is closed, the
\* connection of an admitted, rejected or failed request stays with it.
C15_ConnectionsClosed ==
  /\ OpenConnections \subseteq InFlight
  /\ Cardinality(OpenConnections) <= Cardinality(InFlight)
  /\ \A i \in Slots : req[i].pc = "ready" => req[i].conn
  /\ (last.status # 0 /\ last.conn) =>
       \E i \in Slots : req[i].pc = "exit" /\ req[i].conn

\* requests have come and gone, not all of them with a row, and nothing is
\* open
C15_Witness ==
  /\ nreq >= 2 /\ log.n < nreq
  /\ InFlight = {} /\ OpenConnections = {}

(***************************************************************************)
(* C16                                                                     *)
(***************************************************************************)
\* C16: when the database cannot be reached while the request's connection
\* is acquired, the request fails with 503 before any work: no cache read,
\* no upstream call, no cache write and no log write.
C16_UnreachableIs503 ==
  (last.status # 0 /\ ~last.conn) =>
    /\ last.status = DB_UNAVAILABLE_STATUS
    /\ last.body = DB_UNAVAILABLE_DETAIL
    /\ ~Invoked
    /\ NoWork
    /\ written = last.written0

\* the 503 of a request whose answer was waiting in the cache
C16_Witness ==
  /\ last.status = DB_UNAVAILABLE_STATUS /\ ~last.conn /\ last.hasQuery
  /\ Truthy(RedisGet(cache, Key))

(***************************************************************************)
(* C18                                                                     *)
(***************************************************************************)
\* C18: the request's connection is acquired before the rate-limit check: a
\* request the limiter rejects has opened a connection, closed when the
\* request ends, and while the database is unreachable a request fails with
\* 503, not with the rate-limit error, and is not counted by the limiter.
C18_ConnectionBeforeLimit ==
  /\ last.status = 429 =>
       /\ last.conn
       /\ \E i \in Slots : req[i].pc = "exit" /\ req[i].conn
  /\ last.counted > 0 => last.conn
  /\ (last.status # 0 /\ ~last.conn) =>
       /\ last.status = DB_UNAVAILABLE_STATUS
       /\ last.status # 429
       /\ last.counted = 0
       /\ limiter = last.limiter0
  /\ \A i \in Slots : req[i].pc = "idle" => ~req[i].conn

\* a client over its limit asks while the database is down: 503, and its
\* window counts no more than before
C18_Witness ==
  /\ last.status = DB_UNAVAILABLE_STATUS /\ ~last.conn
  /\ CountedBefore(last.ip) >= RATE_LIMIT
  /\ limiter = last.limiter0

(***************************************************************************)
(* C17                                                                     *)
(***************************************************************************)
\* C17: in every reachable state each cache entry was created by the miss
\* path after a successful upstream call: its key was written by the
\* handler, as the lower-cased query of the writer, its value is the
\* response text upstream returned to the last writer of the key, and no
\* handler step deletes an entry.
C17_EntriesFromUpstream ==
  /\ \A k \in Keys :
       cache[k].present =>
         /\ written[k] >= 0
         /\ origin[k] = Some(cache[k].value)
  /\ Invoked =>
       /\ \A k \in Keys : last.cache0[k].present => cache[k].present
       /\ \A k \in Keys \ {Lower(last.query)} : cache[k] = last.cache0[k]
       /\ cache # last.cache0 =>
            /\ last.path = "miss"
            /\ last.err = ""
            /\ Precedes(last.calls, "openai", "setex")
            /\ origin[Key] = Some(cache[Key].value)
            /\ last.raised = "" => cache[Key].value = last.body

\* the entry of a query sent in capitals: under the lower-cased key, with
\* the stripped text of the completion
C17_Witness ==
  /\ Invoked /\ last.query = <<"H", "i">> /\ cache # last.cache0
  /\ cache[<<"h", "i">>].present /\ cache[<<"h", "i">>].value = <<"4">>
  /\ origin[<<"h", "i">>] = Some(<<"4">>)

(***************************************************************************)
(* C19                                                                     *)
(***************************************************************************)
\* an invocation in which every dependency does its work
Healthy(e) ==
  /\ e.getOk /\ e.setexOk /\ e.logOk
  /\ get_openai_response(e.up).ok

\* C19: a handler body runs from its cache read through its cache write and
\* log write with no other body in between; hence of two overlapping
\* admitted requests for the same uncached key with a successful upstream,
\* one calls upstream and the other, run next, is served its response from
\* the cache without an upstream call.
C19_OneUpstreamCall ==
  (/\ Invoked /\ last.path = "miss" /\ last.status = 200
   /\ ~last.cache0[Key].present
   /\ UpstreamCalls = 1)
    => \A i \in Slots :
         (req[i].pc = "ready" /\ CacheKey(req[i].query) = Key
            /\ LimiterAllows(limiter, req[i].ip))
           => \A e \in {x \in Envs(OverlapProfile) : Healthy(x)} :
                LET r2 == chat_request(cache, log, req[i].ip, req[i].query, e)
                IN /\ r2.path = "hit"
                   /\ r2.source = "cache"
                   /\ r2.body = last.body
                   /\ Count(r2.calls, "openai") = 0

====
